---- MODULE Spec2Model ----
(***************************************************************************)
(* Model of src/tfs/examples/pretrain_bert_simple.py: the corpus windower  *)
(* (create_single_file_dataset), the checkpoint step resolver              *)
(* (try_get_global_step) and main(), which wires them to the trainer.      *)
(* Python strings are sequences of one-character strings; None is the      *)
(* record [some |-> FALSE].                                                *)
(***************************************************************************)
EXTENDS Integers, Sequences, FiniteSets, TLC

VARIABLES
    pc,             \* position of main(): "parse", "resolve", ..., "done"
    argv,           \* the command line as given (record of option values)
    args,           \* argparse's namespace after parse_args / line 90
    pid,            \* os.getpid()
    disk,           \* checkpoint files on disk: set of [name, updates]
    global_step,    \* main's local of lines 100/104
    model,          \* the model's weights, abstracted to the number of optimizer updates in them
    trainer,        \* SingleDeviceLMTrainer's state
    train_dataset,  \* line 114
    valid_dataset,  \* line 115
    applied,        \* learning rates applied so far: set of <<update index, rate>>
    restarts        \* how many times the process was restarted from a checkpoint

vars == <<pc, argv, args, pid, disk, global_step, model, trainer,
          train_dataset, valid_dataset, applied, restarts>>

-----------------------------------------------------------------------------
(* Python values *)

None == [some |-> FALSE]
Some(v) == [some |-> TRUE, v |-> v]

Max(S) == CHOOSE x \in S : \A y \in S : y <= x

\* str.isspace for the characters of the model: \S of the regex is its complement
IsSpace(c) == c \in {" ", "\t", "\n"}

DigitChars == <<"0", "1", "2", "3", "4", "5", "6", "7", "8", "9">>

\* \d of the regex
IsDigit(c) == \E d \in 1..10 : DigitChars[d] = c

DigitVal(c) == (CHOOSE d \in 1..10 : DigitChars[d] = c) - 1

\* int(match[2]): base 10, arbitrary precision
RECURSIVE ParseInt(_)
ParseInt(ds) ==
    IF ds = <<>> THEN 0
    ELSE ParseInt(SubSeq(ds, 1, Len(ds) - 1)) * 10 + DigitVal(ds[Len(ds)])

\* f'{k}' of a non-negative int
RECURSIVE IntToStr(_)
IntToStr(k) ==
    IF k < 10 THEN <<DigitChars[k + 1]>>
    ELSE IntToStr(k \div 10) \o <<DigitChars[(k % 10) + 1]>>

\* s[pos:].startswith(lit), pos counted from 1
HasAt(s, pos, lit) ==
    /\ pos >= 1
    /\ pos + Len(lit) - 1 <= Len(s)
    /\ SubSeq(s, pos, pos + Len(lit) - 1) = lit

-----------------------------------------------------------------------------
(* try_get_global_step, lines 39-54 *)

StepLit == <<"-", "s", "t", "e", "p", "-">>
PthLit == <<"p", "t", "h">>

\* Mutant of MatchAt: the pattern is anchored at the end too (re.fullmatch)
MatchAtFull(s, i, j) ==
    /\ i >= 1 /\ j >= 1
    /\ i + 6 + j + 4 = Len(s)
    /\ \A k \in 1..i : ~IsSpace(s[k])
    /\ HasAt(s, i + 1, StepLit)
    /\ \A k \in (i + 7)..(i + 6 + j) : IsDigit(s[k])
    /\ s[i + 7 + j] # "\n"
    /\ HasAt(s, i + 8 + j, PthLit)

\* One way the pattern '(\S+)-step-(\d+).pth' can match at the start of s:
\* group 1 is s[1..i], group 2 the j digits after "-step-", then any
\* character but a newline (the dot is unescaped), then "pth".
MatchAt(s, i, j) ==
    /\ i >= 1 /\ j >= 1
    /\ i + 6 + j + 4 <= Len(s)
    /\ \A k \in 1..i : ~IsSpace(s[k])
    /\ HasAt(s, i + 1, StepLit)
    /\ \A k \in (i + 7)..(i + 6 + j) : IsDigit(s[k])
    /\ s[i + 7 + j] # "\n"
    /\ HasAt(s, i + 8 + j, PthLit)

\* Mutant of ReMatch: group 1 is matched lazily, so the first "-step-" wins
ReMatchLazy(s) ==
    LET ends == {i \in 1..Len(s) : \E j \in 1..Len(s) : MatchAt(s, i, j)}
    IN  IF ends = {} THEN None
        ELSE LET i == CHOOSE x \in ends : \A y \in ends : x <= y
                 j == Max({k \in 1..Len(s) : MatchAt(s, i, k)})
             IN  Some(SubSeq(s, i + 7, i + 6 + j))

\* re.match: anchored at the start, not at the end; both quantifiers are
\* greedy, so the first match the backtracking finds has the longest group 1
\* and, for it, the longest group 2.  The result is group 2, or None.
ReMatch(s) ==
    LET ends == {i \in 1..Len(s) : \E j \in 1..Len(s) : MatchAt(s, i, j)}
    IN  IF ends = {} THEN None
        ELSE LET i == Max(ends)
                 j == Max({k \in 1..Len(s) : MatchAt(s, i, k)})
             IN  Some(SubSeq(s, i + 7, i + 6 + j))

try_get_global_step(checkpoint_name) ==
    LET match == ReMatch(checkpoint_name)
    IN  IF match.some THEN ParseInt(match.v) ELSE 0

-----------------------------------------------------------------------------
(* create_single_file_dataset, lines 21-36 *)

\* Special-token ids of the vocabulary (tokenizer.token_to_id)
ClsId == 101
SepId == 102

\* str.strip()
RECURSIVE LStrip(_)
LStrip(s) == IF s # <<>> /\ IsSpace(s[1]) THEN LStrip(Tail(s)) ELSE s
RECURSIVE RStrip(_)
RStrip(s) ==
    IF s # <<>> /\ IsSpace(s[Len(s)]) THEN RStrip(SubSeq(s, 1, Len(s) - 1)) ELSE s
Strip(s) == LStrip(RStrip(s))

\* The vocabulary of the model's tokenizer: one id per word character
TokenId(c) == IF c = "a" THEN 7 ELSE IF c = "b" THEN 8 ELSE 9

\* tokenizer.encode(line, add_special_tokens=False).ids: whitespace separates
\* words and produces no token
RECURSIVE Encode(_)
Encode(line) ==
    IF line = <<>> THEN <<>>
    ELSE IF IsSpace(line[1]) THEN Encode(Tail(line))
    ELSE <<TokenId(line[1])>> \o Encode(Tail(line))

\* lines 25-30: the token stream of a file (a sequence of lines)
RECURSIVE TokenStream(_)
TokenStream(lines) ==
    IF lines = <<>> THEN <<>>
    ELSE LET line == Strip(lines[1])
         IN  (IF line # <<>> THEN Encode(line) ELSE <<>>) \o TokenStream(Tail(lines))

\* Mutant of NumSamples: the stream is not cut down to whole windows
NumSamplesUncut(n, num_toks) == n

\* line 33: len(tokens) // num_toks * num_toks for num_toks > 0
NumSamples(n, num_toks) == (n \div num_toks) * num_toks

\* Mutant of Slice: the slice starts one token late
SliceLate(tokens, i, num_toks) ==
    SubSeq(tokens, i + 2,
           IF i + 1 + num_toks <= Len(tokens) THEN i + 1 + num_toks ELSE Len(tokens))

\* Python's tokens[i : i + num_toks], i counted from 0
Slice(tokens, i, num_toks) ==
    SubSeq(tokens, i + 1, IF i + num_toks <= Len(tokens) THEN i + num_toks ELSE Len(tokens))

\* line 34: one window
Window(tokens, i, num_toks) == <<ClsId>> \o Slice(tokens, i, num_toks) \o <<SepId>>

\* len(range(0, stop, step)) for step > 0
RangeLen(stop, step) == (stop + step - 1) \div step

\* line 34: the list of windows, one per i in range(0, num_samples, num_toks)
Windows(tokens, num_toks) ==
    LET num_samples == NumSamples(Len(tokens), num_toks)
    IN  [k \in 1..RangeLen(num_samples, num_toks) |->
            Window(tokens, (k - 1) * num_toks, num_toks)]

\* Mutant of create_single_file_dataset: an empty list of windows is refused
create_single_file_dataset_nonempty(file, seq_len) ==
    IF ~file.some THEN [raised |-> "FileNotFoundError", windows |-> <<>>]
    ELSE LET tokens == TokenStream(file.v)
             num_toks == seq_len - 2
         IN  IF num_toks = 0 THEN [raised |-> "ZeroDivisionError", windows |-> <<>>]
             ELSE IF num_toks < 0 \/ Windows(tokens, num_toks) = <<>>
                 THEN [raised |-> "ValueError", windows |-> <<>>]
             ELSE [raised |-> "", windows |-> Windows(tokens, num_toks)]

\* The outcome of create_single_file_dataset(tokenizer, fname, seq_len):
\* a dataset, or the exception it raises.
\*   - open() of a missing file raises FileNotFoundError;
\*   - seq_len = 2 divides by zero on line 33;
\*   - seq_len < 2: num_toks < 0 and range(0, num_samples, num_toks), with
\*     num_samples >= 0 and a negative step, is empty: no window.
create_single_file_dataset(file, seq_len) ==
    IF ~file.some THEN [raised |-> "FileNotFoundError", windows |-> <<>>]
    ELSE LET tokens == TokenStream(file.v)
             num_toks == seq_len - 2
         IN  IF num_toks = 0 THEN [raised |-> "ZeroDivisionError", windows |-> <<>>]
             ELSE IF num_toks < 0 THEN [raised |-> "", windows |-> <<>>]
             ELSE [raised |-> "", windows |-> Windows(tokens, num_toks)]

-----------------------------------------------------------------------------
(* Exact arithmetic for the learning-rate schedule: a rational is a record   *)
(* [n, d] in lowest terms with d > 0.                                        *)

Abs(x) == IF x < 0 THEN -x ELSE x

RECURSIVE Gcd(_, _)
Gcd(a, b) == IF b = 0 THEN a ELSE Gcd(b, a % b)

Rat(n, d) ==
    LET g == Gcd(Abs(n), Abs(d))
        sgn == IF d < 0 THEN -1 ELSE 1
    IN  [n |-> sgn * (n \div g), d |-> sgn * (d \div g)]

RAdd(x, y) == Rat(x.n * y.d + y.n * x.d, x.d * y.d)
RSub(x, y) == Rat(x.n * y.d - y.n * x.d, x.d * y.d)
RMul(x, y) == Rat(x.n * y.n, x.d * y.d)
RDiv(x, y) == Rat(x.n * y.d, x.d * y.n)
RLess(x, y) == x.n * y.d < y.n * x.d
RLeq(x, y) == x.n * y.d <= y.n * x.d

ROne == Rat(1, 1)
RZero == Rat(0, 1)

\* A learning rate: an exact rational, or, where the cosine is irrational,
\* the decay progress x it is the cosine curve's value at (the curve is
\* injective in x, so two such rates are equal exactly when their x agree).
Exact(r) == [kind |-> "exact", n |-> r.n, d |-> r.d]
OnCosine(x) == [kind |-> "cosine", n |-> x.n, d |-> x.d]

-----------------------------------------------------------------------------
(* The trainer's learning-rate schedule (section 4.3 of the specification)   *)

\* Mutant of LearningRate: the plateau is skipped, the decay starts when the
\* warmup ends
LearningRateNoPlateau(step, cfg) ==
    LET f == Rat(step, cfg.total_steps)
        floor == RMul(cfg.lr, cfg.alpha_decay)
    IN  IF step >= cfg.total_steps THEN Exact(floor)
        ELSE IF RLess(f, cfg.warmup_fract)
            THEN Exact(RMul(cfg.lr, RDiv(f, cfg.warmup_fract)))
        ELSE LET x == RDiv(RSub(f, cfg.warmup_fract), RSub(ROne, cfg.warmup_fract))
             IN  Exact(RAdd(floor, RMul(RSub(cfg.lr, floor), RSub(ROne, x))))

\* cfg: [lr, warmup_fract, plateau_fract, alpha_decay : rationals,
\*       decay_type : "cosine" | "linear", total_steps : Nat]
LearningRate(step, cfg) ==
    LET f == Rat(step, cfg.total_steps)
        held == RAdd(cfg.warmup_fract, cfg.plateau_fract)
        floor == RMul(cfg.lr, cfg.alpha_decay)
    IN  IF step >= cfg.total_steps THEN Exact(floor)
        ELSE IF RLess(f, cfg.warmup_fract)
            THEN Exact(RMul(cfg.lr, RDiv(f, cfg.warmup_fract)))
        ELSE IF RLess(f, held) THEN Exact(cfg.lr)
        ELSE LET x == RDiv(RSub(f, held), RSub(ROne, held))
                 span == RSub(cfg.lr, floor)
             IN  IF cfg.decay_type = "linear"
                     THEN Exact(RAdd(floor, RMul(span, RSub(ROne, x))))
                 ELSE IF x = RZero THEN Exact(cfg.lr)
                 ELSE IF x = Rat(1, 3) THEN Exact(RAdd(floor, RMul(span, Rat(3, 4))))
                 ELSE IF x = Rat(1, 2) THEN Exact(RAdd(floor, RMul(span, Rat(1, 2))))
                 ELSE IF x = Rat(2, 3) THEN Exact(RAdd(floor, RMul(span, Rat(1, 4))))
                 ELSE IF span = RZero THEN Exact(floor)
                 ELSE OnCosine(x)

-----------------------------------------------------------------------------
(* main(), lines 57-117 *)

CkptLit == <<"c", "k", "p", "t">>
MlmLit == <<"m", "l", "m", "-">>
SuffixLit == <<".", "p", "t", "h">>

\* os.path.join(a, b) for a relative b
PathJoin(a, b) ==
    IF a = <<>> THEN b
    ELSE IF a[Len(a)] = "/" THEN a \o b
    ELSE a \o <<"/">> \o b

\* argparse's type=int applied to a command-line string: int(s), or an error
\* (None) that makes parse_args exit with status 2
ArgInt(s) ==
    IF s # <<>> /\ \A k \in 1..Len(s) : IsDigit(s[k]) THEN Some(ParseInt(s)) ELSE None

\* An option with type=int and a default (lines 79-80): the default is used
\* as written when the option is absent, the string is converted otherwise
FractOption(opt, default) ==
    IF ~opt.some THEN Some(default)
    ELSE LET v == ArgInt(opt.v) IN IF v.some THEN Some(Rat(v.v, 1)) ELSE None

\* lines 58-87: parse_args
ParseArgs ==
    /\ pc = "parse"
    /\ LET warmup == FractOption(argv.warmup_fract, Rat(1, 10))
           plateau == FractOption(argv.plateau_fract, Rat(0, 10))
       IN  IF warmup.some /\ plateau.some
           THEN /\ args' = [argv EXCEPT !.warmup_fract = warmup.v,
                                        !.plateau_fract = plateau.v]
                /\ pc' = "setup"
           ELSE /\ args' = args
                /\ pc' = "usage_error"
    /\ UNCHANGED <<argv, pid, disk, global_step, model, trainer,
                   train_dataset, valid_dataset, applied, restarts>>

\* lines 89-97: the default checkpoint directory, the tokenizer
Setup ==
    /\ pc = "setup"
    /\ args' = IF ~args.model_checkpoint_dir.some
               THEN [args EXCEPT !.model_checkpoint_dir = Some(MlmLit \o IntToStr(pid))]
               ELSE args
    /\ pc' = "resolve"
    /\ UNCHANGED <<argv, pid, disk, global_step, model, trainer,
                   train_dataset, valid_dataset, applied, restarts>>

\* Python's truthiness of args.restart_from (line 99): None and '' are false
Truthy(opt) == opt.some /\ opt.v # <<>>

\* BertCreator.mlm_from_pretrained(restart_from): the weights of a checkpoint
\* on disk, or those of a published pretrained model, which this loop has not
\* updated
LoadModel(name) ==
    IF \E f \in disk : f.name = name
    THEN [updates |-> (CHOOSE f \in disk : f.name = name).updates]
    ELSE [updates |-> 0]

\* Mutant of ResolveStep: the checkpoint is loaded but the step starts at 0
ResolveStepFromZero ==
    /\ pc = "resolve"
    /\ global_step' = 0
    /\ model' = IF Truthy(args.restart_from) THEN LoadModel(args.restart_from.v)
                ELSE [updates |-> 0]
    /\ pc' = "trainer"
    /\ UNCHANGED <<argv, args, pid, disk, trainer, train_dataset, valid_dataset,
                   applied, restarts>>

\* lines 99-105
ResolveStep ==
    /\ pc = "resolve"
    /\ IF Truthy(args.restart_from)
       THEN /\ global_step' = try_get_global_step(args.restart_from.v)
            /\ model' = LoadModel(args.restart_from.v)
       ELSE /\ global_step' = 0
            /\ model' = [updates |-> 0]
    /\ pc' = "trainer"
    /\ UNCHANGED <<argv, args, pid, disk, trainer, train_dataset, valid_dataset,
                   applied, restarts>>

\* lines 107-112: SingleDeviceLMTrainer(model, global_step=global_step, **vars(args))
CreateTrainer ==
    /\ pc = "trainer"
    /\ trainer' = Some([global_step |-> global_step,
                        lr |-> args.lr,
                        warmup_fract |-> args.warmup_fract,
                        plateau_fract |-> args.plateau_fract,
                        alpha_decay |-> args.alpha_decay,
                        decay_type |-> args.decay_type,
                        batch_size |-> args.batch_size,
                        saves_per_epoch |-> args.saves_per_epoch,
                        total_steps |-> 0, steps_per_epoch |-> 0,
                        num_epochs |-> 0, model_base |-> <<>>,
                        epoch |-> 0, step_in_epoch |-> 0])
    /\ pc' = "train_ds"
    /\ UNCHANGED <<argv, args, pid, disk, global_step, model, train_dataset,
                   valid_dataset, applied, restarts>>

\* line 114
ReadTrain ==
    /\ pc = "train_ds"
    /\ LET r == create_single_file_dataset(args.train_file, args.seq_len)
       IN  /\ train_dataset' = Some(r)
           /\ pc' = IF r.raised = "" THEN "valid_ds" ELSE "crashed"
    /\ UNCHANGED <<argv, args, pid, disk, global_step, model, trainer,
                   valid_dataset, applied, restarts>>

\* line 115
ReadValid ==
    /\ pc = "valid_ds"
    /\ LET r == create_single_file_dataset(args.valid_file, args.seq_len)
       IN  /\ valid_dataset' = Some(r)
           /\ pc' = IF r.raised = "" THEN "train_epochs" ELSE "crashed"
    /\ UNCHANGED <<argv, args, pid, disk, global_step, model, trainer,
                   train_dataset, applied, restarts>>

-----------------------------------------------------------------------------
(* SingleDeviceLMTrainer.train_epochs (section 4.4 of the specification)     *)

\* The name of the checkpoint written at a global step (sections 4.2, 4.4)
CheckpointName(model_base, step) == model_base \o StepLit \o IntToStr(step) \o SuffixLit

\* Number of batches of a fixed batch size over n windows
NumBatches(n, batch_size) == (n + batch_size - 1) \div batch_size

\* "every steps_per_epoch / saves_per_epoch steps, rounded down, minimum 1"
SaveEvery(steps_per_epoch, saves_per_epoch) ==
    LET q == steps_per_epoch \div saves_per_epoch IN IF q < 1 THEN 1 ELSE q

ScheduleOf(t) ==
    [lr |-> t.lr, warmup_fract |-> t.warmup_fract, plateau_fract |-> t.plateau_fract,
     alpha_decay |-> t.alpha_decay, decay_type |-> t.decay_type,
     total_steps |-> t.total_steps]

\* Writing a file replaces the one of the same name
WriteCheckpoint(files, name, weights) ==
    {f \in files : f.name # name} \cup {[name |-> name, updates |-> weights.updates]}

\* line 117: trainer.train_epochs(train_dataset, valid_dataset, <dir>/ckpt, epochs)
StartTraining ==
    /\ pc = "train_epochs"
    /\ LET t == trainer.v
           spe == NumBatches(Len(train_dataset.v.windows), t.batch_size)
       IN  trainer' = Some([t EXCEPT !.steps_per_epoch = spe,
                                     !.total_steps = args.epochs * spe,
                                     !.num_epochs = args.epochs,
                                     !.model_base = PathJoin(args.model_checkpoint_dir.v, CkptLit)])
    /\ pc' = "training"
    /\ UNCHANGED <<argv, args, pid, disk, global_step, model, train_dataset,
                   valid_dataset, applied, restarts>>

\* One optimizer step: the rate of the current global step is applied, the
\* step counter advances, and a checkpoint is written on the cadence
TrainStep ==
    /\ pc = "training"
    /\ trainer.v.epoch < trainer.v.num_epochs
    /\ trainer.v.step_in_epoch < trainer.v.steps_per_epoch
    /\ LET t == trainer.v
           rate == LearningRate(t.global_step, ScheduleOf(t))
           step == t.global_step + 1
           weights == [updates |-> model.updates + 1]
       IN  /\ applied' = applied \cup {<<model.updates, rate>>}
           /\ model' = weights
           /\ trainer' = Some([t EXCEPT !.global_step = step,
                                        !.step_in_epoch = t.step_in_epoch + 1])
           /\ disk' = IF step % SaveEvery(t.steps_per_epoch, t.saves_per_epoch) = 0
                      THEN WriteCheckpoint(disk, CheckpointName(t.model_base, step), weights)
                      ELSE disk
    /\ UNCHANGED <<pc, argv, args, pid, global_step, train_dataset, valid_dataset,
                   restarts>>

\* The validation pass at the end of an epoch: no parameter update
EpochEnd ==
    /\ pc = "training"
    /\ trainer.v.epoch < trainer.v.num_epochs
    /\ trainer.v.step_in_epoch = trainer.v.steps_per_epoch
    /\ trainer' = Some([trainer.v EXCEPT !.epoch = trainer.v.epoch + 1,
                                         !.step_in_epoch = 0])
    /\ UNCHANGED <<pc, argv, args, pid, disk, global_step, model, train_dataset,
                   valid_dataset, applied, restarts>>

\* The configured number of epochs is complete: the final checkpoint, exit 0
Finish ==
    /\ pc = "training"
    /\ trainer.v.epoch = trainer.v.num_epochs
    /\ disk' = WriteCheckpoint(disk, CheckpointName(trainer.v.model_base, trainer.v.global_step),
                               model)
    /\ pc' = "done"
    /\ UNCHANGED <<argv, args, pid, global_step, model, trainer, train_dataset,
                   valid_dataset, applied, restarts>>

-----------------------------------------------------------------------------
(* The process and its restart                                               *)

\* How many times a run is restarted from a checkpoint
MaxRestarts == 1

\* The state of a process before main() runs
Fresh ==
    /\ pc = "parse"
    /\ args = None
    /\ global_step = 0
    /\ model = [updates |-> 0]
    /\ trainer = None
    /\ train_dataset = None
    /\ valid_dataset = None

\* The run is interrupted (or has ended) and started again with the same
\* command line but for --restart_from, which names a checkpoint on disk
Restart ==
    /\ pc \in {"training", "done"}
    /\ restarts < MaxRestarts
    /\ \E f \in disk :
           argv' = [argv EXCEPT !.restart_from = Some(f.name)]
    /\ pid' = pid + 1
    /\ restarts' = restarts + 1
    /\ pc' = "parse"
    /\ args' = None
    /\ global_step' = 0
    /\ model' = [updates |-> 0]
    /\ trainer' = None
    /\ train_dataset' = None
    /\ valid_dataset' = None
    /\ UNCHANGED <<disk, applied>>

-----------------------------------------------------------------------------
(* Inputs                                                                    *)

\* All sequences over S of length at most n
RECURSIVE SeqsUpTo(_, _)
SeqsUpTo(S, n) ==
    IF n = 0 THEN {<<>>}
    ELSE LET shorter == SeqsUpTo(S, n - 1)
         IN  shorter \cup {Append(q, x) : q \in shorter, x \in S}

ExampleSaved == <<"m", "o", "d", "e", "l", "-", "s", "t", "e", "p", "-", "1", "5", "0", "0", ".", "p", "t", "h">>
ExamplePretrained == <<"b", "e", "r", "t", "-", "b", "a", "s", "e", "-", "p", "r", "e", "t", "r", "a", "i", "n", "e", "d">>
ExampleZero == <<"r", "u", "n", "-", "s", "t", "e", "p", "-", "0", ".", "p", "t", "h">>
ExampleResume == <<"c", "k", "p", "t", "-", "s", "t", "e", "p", "-", "5", "0", "0", ".", "p", "t", "h">>

\* A text file: two lines of tokens around a blank line
SmallFile == <<<<"a", "b">>, <<" ">>, <<" ", "b", " ", "a", " ">>>>

\* The command line the runs start from: the file's defaults, but for a small
\* seq_len and batch_size so that a few tokens make several windows and batches
DefaultArgv ==
    [model_checkpoint_dir |-> None, restart_from |-> None, seq_len |-> 3,
     warmup_fract |-> None, plateau_fract |-> None, decay_type |-> "None",
     alpha_decay |-> Rat(0, 1), lr |-> Rat(100, 1), epochs |-> 1,
     batch_size |-> 2, saves_per_epoch |-> 10,
     train_file |-> Some(SmallFile), valid_file |-> Some(SmallFile)]

\* A checkpoint an earlier run left on disk
EarlierCheckpoint == [name |-> ExampleResume, updates |-> 500]

InitProcess(a) ==
    /\ argv = a
    /\ pid = 7
    /\ disk = {EarlierCheckpoint}
    /\ applied = {}
    /\ restarts = 0
    /\ Fresh

-----------------------------------------------------------------------------
(* Spec: main() from the command line to the end of training, and restarts  *)

Dirs == {None, Some(<<"o", "u", "t">>), Some(<<"m", "y", " ", "r", "u", "n", "s">>)}
RestartFroms == {None, Some(<<>>), Some(ExamplePretrained), Some(ExampleResume)}
FractArgs == {None, Some(<<"1">>), Some(<<"0", ".", "5">>)}

Init ==
    \E dir \in Dirs, rf \in RestartFroms, w \in FractArgs, pl \in {None, Some(<<"1">>)},
       dt \in {"None", "linear"}, ep \in {1, 2}, tf \in {None, Some(<<>>), Some(SmallFile)}, sl \in {2, 3} :
        InitProcess([DefaultArgv EXCEPT !.model_checkpoint_dir = dir,
                                        !.restart_from = rf,
                                        !.warmup_fract = w,
                                        !.plateau_fract = pl,
                                        !.decay_type = dt,
                                        !.epochs = ep,
                                        !.train_file = tf,
                                        !.seq_len = sl])

Next ==
    \/ ParseArgs
    \/ Setup
    \/ ResolveStep
    \/ CreateTrainer
    \/ ReadTrain
    \/ ReadValid
    \/ StartTraining
    \/ TrainStep
    \/ EpochEnd
    \/ Finish
    \/ Restart

Spec == Init /\ [][Next]_vars

-----------------------------------------------------------------------------
(* SpecResolver: main() up to the resolved step, over checkpoint identifiers *)

\* Longest digit string of an identifier
MaxDigits == 2

\* The parts identifiers are assembled from: head, "-step-" or a near miss,
\* digits, the character before the extension, the extension, trailing text
IdHeads ==
    {<<>>,
     <<"m">>,
     <<"m", "y", " ", "r", "u", "n", "/", "c">>,
     <<"a", "-", "s", "t", "e", "p", "-", "3", ".", "p", "t", "h">>,
     <<"a", "-", "s", "t", "e", "p", "-", "3", ".", "p", "t", "h", " ", "b">>}
IdMids ==
    {<<"-", "s", "t", "e", "p", "-">>,
     <<"-", "s", "t", "e", "p">>}
IdDigits == SeqsUpTo({"0", "1", "5"}, MaxDigits)
IdDots ==
    {<<".">>,
     <<"x">>,
     <<>>,
     <<"\n">>,
     <<" ">>}
IdExts ==
    {<<"p", "t", "h">>,
     <<"b", "i", "n">>}
IdTails ==
    {<<>>,
     <<".", "b", "a", "k">>,
     <<"-", "s", "t", "e", "p", "-", "9", ".", "p", "t", "h">>,
     <<"/", "c", "-", "s", "t", "e", "p", "-", "4", "2", "x", "p", "t", "h">>}

Identifiers ==
    {h \o m \o d \o c \o e \o t :
        h \in IdHeads, m \in IdMids, d \in IdDigits, c \in IdDots, e \in IdExts, t \in IdTails}
    \cup {ExampleSaved, ExamplePretrained, ExampleZero, ExampleResume}

InitResolver ==
    \E id \in Identifiers : InitProcess([DefaultArgv EXCEPT !.restart_from = Some(id)])

NextResolver ==
    \/ ParseArgs
    \/ Setup
    \/ ResolveStep

SpecResolver == InitResolver /\ [][NextResolver]_vars

-----------------------------------------------------------------------------
(* SpecWindower: main() up to the datasets, over text files and seq_len      *)

\* Longest file, in lines, and largest seq_len
MaxLines == 3
MaxSeqLen == 5

\* Lines as the file iterator yields them: blank ones, with and without the
\* newline, with inner and outer whitespace
TextLines ==
    {<<>>,
     <<" ", "\n">>,
     <<"a", "\n">>,
     <<"b">>,
     <<"a", "b", "\n">>,
     <<" ", "b", " ", "a", " ">>,
     <<"b", "b", "a", "\n">>}
TextFiles == SeqsUpTo(TextLines, MaxLines)

InitWindower ==
    \E tf \in {None} \cup {Some(f) : f \in TextFiles}, sl \in 1..MaxSeqLen :
        InitProcess([DefaultArgv EXCEPT !.train_file = tf, !.seq_len = sl])

NextWindower ==
    \/ ParseArgs
    \/ Setup
    \/ ResolveStep
    \/ CreateTrainer
    \/ ReadTrain
    \/ ReadValid

SpecWindower == InitWindower /\ [][NextWindower]_vars

-----------------------------------------------------------------------------
(* SpecSchedule: train_epochs of a trainer constructed with any fractions    *)

\* Largest global step a trainer is constructed with
MaxStartStep == 5

\* Fractions are drawn in tenths, 0.0 to 1.0
Tenths == {Rat(k, 10) : k \in 0..10}

InitSchedule ==
    \E w \in Tenths, pl \in Tenths, alpha \in {Rat(0, 1), Rat(1, 2)},
       dt \in {"cosine", "linear"}, ep \in {1, 2}, g \in 0..MaxStartStep :
        LET a == [DefaultArgv EXCEPT !.warmup_fract = w, !.plateau_fract = pl,
                                     !.alpha_decay = alpha, !.decay_type = dt,
                                     !.epochs = ep, !.batch_size = 1,
                                     !.model_checkpoint_dir = Some(<<"o", "u", "t">>)]
        IN  /\ argv = a
            /\ args = a
            /\ pid = 7
            /\ disk = {}
            /\ applied = {}
            /\ restarts = 0
            /\ pc = "train_epochs"
            /\ global_step = g
            /\ model = [updates |-> g]
            /\ trainer = Some([global_step |-> g, lr |-> a.lr,
                               warmup_fract |-> w, plateau_fract |-> pl,
                               alpha_decay |-> alpha, decay_type |-> dt,
                               batch_size |-> a.batch_size,
                               saves_per_epoch |-> a.saves_per_epoch,
                               total_steps |-> 0, steps_per_epoch |-> 0,
                               num_epochs |-> 0, model_base |-> <<>>,
                               epoch |-> 0, step_in_epoch |-> 0])
            /\ train_dataset = Some(create_single_file_dataset(a.train_file, a.seq_len))
            /\ valid_dataset = Some(create_single_file_dataset(a.valid_file, a.seq_len))

NextSchedule ==
    \/ StartTraining
    \/ TrainStep
    \/ EpochEnd
    \/ Finish

SpecSchedule == InitSchedule /\ [][NextSchedule]_vars

-----------------------------------------------------------------------------
(* Properties of the corpus windower, checked under SpecWindower             *)

\* The number of tokens of a file, counted without building the stream: every
\* character that is not whitespace is one token
RECURSIVE WordChars(_)
WordChars(line) ==
    IF line = <<>> THEN 0
    ELSE (IF IsSpace(line[1]) THEN 0 ELSE 1) + WordChars(Tail(line))
RECURSIVE TokenCount(_)
TokenCount(lines) ==
    IF lines = <<>> THEN 0 ELSE WordChars(lines[1]) + TokenCount(Tail(lines))

\* The train file was read by create_single_file_dataset
TrainRead == train_dataset.some /\ args.train_file.some

RECURSIVE Interiors(_)
Interiors(ws) ==
    IF ws = <<>> THEN <<>>
    ELSE SubSeq(ws[1], 2, Len(ws[1]) - 1) \o Interiors(Tail(ws))

\* C1: for seq_len >= 3 and a stream of n tokens the windower returns
\* n // (seq_len - 2) windows, each of seq_len elements, [CLS] first and
\* [SEP] last.
C1_WindowCountAndShape ==
    (TrainRead /\ args.seq_len >= 3) =>
        LET r == train_dataset.v
            n == TokenCount(args.train_file.v)
        IN  /\ r.raised = ""
            /\ Len(r.windows) = n \div (args.seq_len - 2)
            /\ \A k \in 1..Len(r.windows) :
                  /\ Len(r.windows[k]) = args.seq_len
                  /\ r.windows[k][1] = ClsId
                  /\ r.windows[k][args.seq_len] = SepId

\* Several windows were cut and trailing tokens were left over
C1_Witness ==
    /\ TrainRead /\ args.seq_len >= 3
    /\ Len(train_dataset.v.windows) >= 2
    /\ TokenCount(args.train_file.v) % (args.seq_len - 2) # 0

\* C2: the interior of window k (from 0) is TokenStream[k*interior :
\* (k+1)*interior]; the interiors concatenate to the first
\* (n // interior) * interior tokens and the n mod interior trailing tokens
\* are in no window.
C2_InteriorsContiguous ==
    (TrainRead /\ args.seq_len >= 3) =>
        LET ws == train_dataset.v.windows
            interior == args.seq_len - 2
            tokens == TokenStream(args.train_file.v)
            n == Len(tokens)
        IN  /\ \A k \in 1..Len(ws) :
                  SubSeq(ws[k], 2, Len(ws[k]) - 1)
                      = SubSeq(tokens, (k - 1) * interior + 1, k * interior)
            /\ Interiors(ws) = SubSeq(tokens, 1, (n \div interior) * interior)
            /\ n - Len(Interiors(ws)) = n % interior

\* Two windows of two different interior tokens each, one token dropped
C2_Witness ==
    /\ TrainRead /\ args.seq_len = 4
    /\ Len(train_dataset.v.windows) = 2
    /\ TokenCount(args.train_file.v) = 5
    /\ train_dataset.v.windows[1] # train_dataset.v.windows[2]

\* C6: a stream of fewer than seq_len - 2 tokens gives an empty corpus and
\* no exception; an exception is a different outcome, which ends main()
\* before the validation file is read.
C6_ShortCorpusIsEmpty ==
    /\ (TrainRead /\ TokenCount(args.train_file.v) < args.seq_len - 2) =>
           /\ train_dataset.v.raised = ""
           /\ train_dataset.v.windows = <<>>
    /\ train_dataset.some =>
           (train_dataset.v.raised # "" <=> (pc = "crashed" /\ ~valid_dataset.some))

\* A file with tokens, but too few for one window, and main() goes on
C6_Witness ==
    /\ TrainRead
    /\ TokenCount(args.train_file.v) > 0
    /\ TokenCount(args.train_file.v) < args.seq_len - 2
    /\ train_dataset.v.windows = <<>>
    /\ pc = "train_epochs"

-----------------------------------------------------------------------------
(* Properties of the step resolver, checked under SpecResolver               *)

\* The identifier given as --restart_from and the step main() resolved it to
Resolved == pc = "trainer" /\ argv.restart_from.some
Identifier == argv.restart_from.v

RECURSIVE Pow10(_)
Pow10(k) == IF k = 0 THEN 1 ELSE 10 * Pow10(k - 1)

DigitOf(c) ==
    CASE c = "0" -> 0 [] c = "1" -> 1 [] c = "2" -> 2 [] c = "3" -> 3 [] c = "4" -> 4
      [] c = "5" -> 5 [] c = "6" -> 6 [] c = "7" -> 7 [] c = "8" -> 8 [] c = "9" -> 9

\* The base-10 value of a digit string, digit by decimal place
RECURSIVE DecimalValue(_)
DecimalValue(ds) ==
    IF ds = <<>> THEN 0
    ELSE DigitOf(ds[1]) * Pow10(Len(ds) - 1) + DecimalValue(Tail(ds))

NoSpace(s) == \A k \in 1..Len(s) : s[k] \notin {" ", "\t", "\n"}
OnlyDigits(s) == \A k \in 1..Len(s) : s[k] \in {"0", "1", "2", "3", "4", "5", "6", "7", "8", "9"}

\* s begins <prefix>-step-<digits>, the prefix being the first i characters
\* (non-empty, no whitespace) and the digits the next j after "-step-"
NamedStep(s, i, j) ==
    /\ i >= 1 /\ j >= 1 /\ i + 6 + j <= Len(s)
    /\ NoSpace(SubSeq(s, 1, i))
    /\ SubSeq(s, i + 1, i + 6) = StepLit
    /\ OnlyDigits(SubSeq(s, i + 7, i + 6 + j))
StepDigits(s, i, j) == SubSeq(s, i + 7, i + 6 + j)
AfterDigits(s, i, j) == SubSeq(s, i + 7 + j, Len(s))

\* s begins <prefix>-step-<digits>.pth
SavedName(s, i, j) ==
    /\ NamedStep(s, i, j)
    /\ Len(AfterDigits(s, i, j)) >= 4
    /\ SubSeq(AfterDigits(s, i, j), 1, 4) = SuffixLit

\* s begins <prefix>-step-<digits><c>pth for one character c, not a newline
LooseName(s, i, j) ==
    /\ NamedStep(s, i, j)
    /\ Len(AfterDigits(s, i, j)) >= 4
    /\ AfterDigits(s, i, j)[1] # "\n"
    /\ SubSeq(AfterDigits(s, i, j), 2, 4) = PthLit

\* s begins <prefix>-step-<digits>.<ext> for a non-empty <ext>
ConventionName(s, i, j) ==
    /\ NamedStep(s, i, j)
    /\ Len(AfterDigits(s, i, j)) >= 2
    /\ AfterDigits(s, i, j)[1] = "."

\* The places <<i, j>> a name can lie at: a "-" follows the first i characters
\* and j characters fit after "-step-"
Positions(s) ==
    UNION {{<<i, j>> : j \in 1..(Len(s) - i - 6)} :
              i \in {k \in 1..(Len(s) - 1) : s[k + 1] = "-"}}

\* C3 as amended: an identifier that is <prefix>-step-<digits>.pth resolves
\* to the base-10 value of the digits; an identifier that does not begin
\* <prefix>-step-<digits><c>pth resolves to 0; the three examples.
C3_ResolvesSavedNames ==
    Resolved =>
        /\ \A p \in Positions(Identifier) :
               (SavedName(Identifier, p[1], p[2]) /\ Len(AfterDigits(Identifier, p[1], p[2])) = 4)
                   => global_step = DecimalValue(StepDigits(Identifier, p[1], p[2]))
        /\ (~\E p \in Positions(Identifier) : LooseName(Identifier, p[1], p[2]))
               => global_step = 0
        /\ Identifier = ExampleSaved => global_step = 1500
        /\ Identifier = ExamplePretrained => global_step = 0
        /\ Identifier = ExampleZero => global_step = 0

\* "model-step-1500.pth" was resolved to 1500
C3_Witness == Resolved /\ Identifier = ExampleSaved /\ global_step = 1500

\* C3 as claimed: <prefix>-step-<digits>.<ext> resolves to the value of the
\* digits for any extension, and every other identifier to 0.
C3_AnyExtension ==
    Resolved =>
        /\ \A p \in Positions(Identifier) :
               (ConventionName(Identifier, p[1], p[2]) /\ NoSpace(AfterDigits(Identifier, p[1], p[2])))
                   => global_step = DecimalValue(StepDigits(Identifier, p[1], p[2]))
        /\ (~\E p \in Positions(Identifier) : ConventionName(Identifier, p[1], p[2]))
               => global_step = 0

\* C10 as amended: the match is anchored at the start only.  An identifier
\* that begins with a name <prefix>-step-<digits>.pth resolves to that
\* name's step whatever follows, unless what follows supplies a later
\* -step-<digits><c>pth reached without whitespace; an identifier whose
\* leading whitespace-free run holds no -step-<digit> resolves to 0.
C10_PrefixOnlyMatch ==
    Resolved =>
        /\ \A p \in Positions(Identifier) :
               (/\ SavedName(Identifier, p[1], p[2])
                /\ ~\E q \in Positions(Identifier) :
                       q[1] > p[1] /\ LooseName(Identifier, q[1], q[2]))
                   => global_step = DecimalValue(StepDigits(Identifier, p[1], p[2]))
        /\ (~\E p \in Positions(Identifier) : NamedStep(Identifier, p[1], p[2]))
               => global_step = 0

\* A saved name followed by trailing text resolved to the name's step
C10_Witness ==
    /\ Resolved
    /\ Identifier = <<"m", "-", "s", "t", "e", "p", "-", "1", "5", ".", "p", "t", "h", ".", "b", "a", "k">>
    /\ global_step = 15

\* C10 as claimed, for the names the trainer writes (extension pth): every
\* trailing text after a conforming name leaves the name's step, and
\* whitespace anywhere ahead of a conforming name gives 0.
C10_AnyTrailingText ==
    Resolved =>
        /\ \A p \in Positions(Identifier) :
               SavedName(Identifier, p[1], p[2])
                   => global_step = DecimalValue(StepDigits(Identifier, p[1], p[2]))
        /\ \A k \in 1..Len(Identifier) :
               LET rest == SubSeq(Identifier, k + 1, Len(Identifier))
               IN  (/\ ~NoSpace(<<Identifier[k]>>)
                    /\ \E p \in Positions(rest) : SavedName(rest, p[1], p[2]))
                       => global_step = 0

-----------------------------------------------------------------------------
(* Properties of main() and of resumed runs, checked under Spec              *)

\* The trainer exists and has not yet taken a training step
BeforeFirstStep ==
    \/ pc \in {"train_ds", "valid_ds", "train_epochs"}
    \/ pc = "training" /\ trainer.v.epoch = 0 /\ trainer.v.step_in_epoch = 0

\* C4: the checkpoint path <base>-step-<k>.pth the trainer writes at step k,
\* for the base path main() passes, resolves back to k.
C4_NameRoundTrip ==
    pc = "training" =>
        try_get_global_step(CheckpointName(trainer.v.model_base, trainer.v.global_step))
            = trainer.v.global_step

\* C5: the trainer starts at try_get_global_step(restart_from), or at 0
\* without restart_from; "ckpt-step-500.pth" starts it at 500; the value is
\* set before any dataset is read and stays until the first training step.
C5_InitialStep ==
    /\ BeforeFirstStep =>
           /\ trainer.v.global_step
                  = (IF argv.restart_from.some
                     THEN try_get_global_step(argv.restart_from.v) ELSE 0)
           /\ argv.restart_from = Some(ExampleResume) => trainer.v.global_step = 500
           /\ ~argv.restart_from.some => trainer.v.global_step = 0
    /\ (train_dataset.some \/ valid_dataset.some) => trainer.some

\* The trainer was created at step 500 from "ckpt-step-500.pth", no dataset read
C5_Witness ==
    /\ pc = "train_ds"
    /\ argv.restart_from = Some(ExampleResume)
    /\ trainer.v.global_step = 500
    /\ ~train_dataset.some

\* C7: every optimizer update, in the first run and in a run resumed from a
\* checkpoint, is made with the rate the schedule gives for that update's
\* index in an uninterrupted run.
C7_ResumedRates ==
    pc \in {"training", "done"} =>
        \A e \in applied : e[2] = LearningRate(e[1], ScheduleOf(trainer.v))

\* C8: a schedule handed to the trainer has warmup_fract + plateau_fract <= 1.
C8_FractionsWithinOne ==
    trainer.some =>
        RLeq(RAdd(trainer.v.warmup_fract, trainer.v.plateau_fract), ROne)

-----------------------------------------------------------------------------
(* Properties of the schedule, checked under SpecSchedule                    *)

ValidFractions(t) == RLeq(RAdd(t.warmup_fract, t.plateau_fract), ROne)

\* Step g of the trainer's schedule lies in the plateau:
\* warmup_fract <= g / total_steps < warmup_fract + plateau_fract
InPlateau(g, t) ==
    /\ g * t.warmup_fract.d >= t.warmup_fract.n * t.total_steps
    /\ RLess(Rat(g, t.total_steps), RAdd(t.warmup_fract, t.plateau_fract))

\* C9: for warmup_fract + plateau_fract <= 1 the rate applied at step 0 is 0
\* with a warmup and lr without one, the rate applied in the plateau is lr,
\* and the rate applied at a step >= total_steps is lr * alpha_decay.
C9_BoundaryRates ==
    (pc \in {"training", "done"} /\ ValidFractions(trainer.v)) =>
        \A e \in applied :
            LET t == trainer.v
                g == e[1]
            IN  /\ (g = 0 /\ t.warmup_fract.n > 0) => e[2] = Exact(RZero)
                /\ (g = 0 /\ t.warmup_fract.n = 0) => e[2] = Exact(t.lr)
                /\ InPlateau(g, t) => e[2] = Exact(t.lr)
                /\ g >= t.total_steps => e[2] = Exact(RMul(t.lr, t.alpha_decay))

\* A run with a warmup, a plateau and a decay took a plateau step and, past
\* total_steps, a clamped one
C9_Witness ==
    /\ pc = "training"
    /\ trainer.v.warmup_fract.n > 0 /\ trainer.v.plateau_fract.n > 0
    /\ RLess(RAdd(trainer.v.warmup_fract, trainer.v.plateau_fract), ROne)
    /\ \E e \in applied : e[1] > 0 /\ InPlateau(e[1], trainer.v) /\ e[2] = Exact(trainer.v.lr)
    /\ \E e \in applied : e[1] = 0 /\ e[2] = Exact(RZero)

====
